---------------------------- MODULE Spec2Model ----------------------------
(***************************************************************************)
(* A model of gents/backend/main.py: the stores (projects, project_files,  *)
(* agent_logs, shared_memory), extract_json_from_text, Agent.execute,      *)
(* Orchestrator.execute_workflow and the HTTP handlers that start builds   *)
(* and write files.                                                        *)
(*                                                                         *)
(* Text is a sequence of chunks.  A chunk is one of the characters the     *)
(* code looks at ( { } [ ] : , " / and the blank), the fence marker,       *)
(* or a run of other characters (a word).  The chunks of a file content    *)
(* used here are single characters, so Len of a content is len(content).   *)
(***************************************************************************)
EXTENDS Integers, Sequences, FiniteSets, TLC

(***************************************************************************)
(* JSON values as json.loads builds them.  Every value is a record of the  *)
(* same shape: t is the Python type, s the characters of a str (or the     *)
(* digits of an int), m the items of a dict in insertion order, l the      *)
(* elements of a list.                                                     *)
(***************************************************************************)
JStr(s) == [t |-> "str", s |-> s, m |-> <<>>, l |-> <<>>]

JNum(s) == [t |-> "int", s |-> s, m |-> <<>>, l |-> <<>>]

JObj(m) == [t |-> "dict", s |-> <<>>, m |-> m, l |-> <<>>]

JList(l) == [t |-> "list", s |-> <<>>, m |-> <<>>, l |-> l]

NoValue == [t |-> "none", s |-> <<>>, m |-> <<>>, l |-> <<>>]

Digits == {"7"}

\* dict[key] = value: an existing key keeps its place, a new one is appended.
DictSet(m, key, value) ==
    IF \E i \in 1..Len(m) : m[i].k = key
    THEN [i \in 1..Len(m) |-> IF m[i].k = key THEN [k |-> key, v |-> value] ELSE m[i]]
    ELSE Append(m, [k |-> key, v |-> value])

\* key in d
HasKey(d, key) == d.t = "dict" /\ \E i \in 1..Len(d.m) : d.m[i].k = key

\* d.get(key, default)
DictGet(d, key, default) ==
    IF HasKey(d, key)
    THEN d.m[CHOOSE i \in 1..Len(d.m) : d.m[i].k = key].v
    ELSE default

\* bool(v): empty containers, empty strings and None are false.
Truthy(v) ==
    CASE v.t = "dict" -> Len(v.m) > 0
      [] v.t = "list" -> Len(v.l) > 0
      [] v.t = "str" -> Len(v.s) > 0
      [] v.t = "int" -> TRUE
      [] OTHER -> FALSE


(***************************************************************************)
(* json.loads over chunks: a recursive-descent parse of one JSON value     *)
(* with blanks allowed around it and between its parts.                    *)
(***************************************************************************)
\* The chunk that stands for a run of three backquotes, and the double quote.
Fence == "<fence>"

Quote == "\""

Min(S) == CHOOSE x \in S : \A y \in S : x <= y

Max(S) == CHOOSE x \in S : \A y \in S : x >= y

\* The first position at or after i that holds no blank (Len(toks) + 1 if none).
SkipWs(toks, i) ==
    Min({j \in i..(Len(toks) + 1) : j = Len(toks) + 1 \/ toks[j] # " "})

ParseFail == [ok |-> FALSE, val |-> NoValue, nxt |-> 0]

\* A string literal opening at i: the characters up to the next quote.
ParseString(toks, i) ==
    LET close == {j \in (i + 1)..Len(toks) : toks[j] = Quote}
    IN  IF close = {}
        THEN ParseFail
        ELSE [ok |-> TRUE, val |-> JStr(SubSeq(toks, i + 1, Min(close) - 1)),
              nxt |-> Min(close) + 1]

RECURSIVE ParseValue(_, _)
RECURSIVE ParseMembers(_, _, _)
RECURSIVE ParseElements(_, _, _)

\* The members of an object from the key at i on; acc holds those read so far.
\* A repeated key keeps its first place and takes the last value, as a dict does.
ParseMembers(toks, i, acc) ==
    IF i > Len(toks) \/ toks[i] # Quote
    THEN ParseFail
    ELSE LET key == ParseString(toks, i)
             colon == SkipWs(toks, key.nxt)
         IN  IF ~key.ok \/ colon > Len(toks) \/ toks[colon] # ":"
             THEN ParseFail
             ELSE LET value == ParseValue(toks, SkipWs(toks, colon + 1))
                      after == SkipWs(toks, value.nxt)
                      acc2 == DictSet(acc, key.val.s, value.val)
                  IN  IF ~value.ok \/ after > Len(toks)
                      THEN ParseFail
                      ELSE IF toks[after] = "}"
                      THEN [ok |-> TRUE, val |-> JObj(acc2), nxt |-> after + 1]
                      ELSE IF toks[after] = ","
                      THEN ParseMembers(toks, SkipWs(toks, after + 1), acc2)
                      ELSE ParseFail

\* The elements of an array from the value at i on.
ParseElements(toks, i, acc) ==
    LET value == ParseValue(toks, i)
        after == SkipWs(toks, value.nxt)
    IN  IF ~value.ok \/ after > Len(toks)
        THEN ParseFail
        ELSE IF toks[after] = "]"
        THEN [ok |-> TRUE, val |-> JList(Append(acc, value.val)), nxt |-> after + 1]
        ELSE IF toks[after] = ","
        THEN ParseElements(toks, SkipWs(toks, after + 1), Append(acc, value.val))
        ELSE ParseFail

ParseValue(toks, i) ==
    IF i > Len(toks)
    THEN ParseFail
    ELSE IF toks[i] = Quote
    THEN ParseString(toks, i)
    ELSE IF toks[i] = "{"
    THEN LET j == SkipWs(toks, i + 1)
         IN  IF j <= Len(toks) /\ toks[j] = "}"
             THEN [ok |-> TRUE, val |-> JObj(<<>>), nxt |-> j + 1]
             ELSE ParseMembers(toks, j, <<>>)
    ELSE IF toks[i] = "["
    THEN LET j == SkipWs(toks, i + 1)
         IN  IF j <= Len(toks) /\ toks[j] = "]"
             THEN [ok |-> TRUE, val |-> JList(<<>>), nxt |-> j + 1]
             ELSE ParseElements(toks, j, <<>>)
    ELSE IF toks[i] \in Digits
    THEN LET stop == Min({j \in (i + 1)..(Len(toks) + 1) :
                             j = Len(toks) + 1 \/ toks[j] \notin Digits})
         IN  [ok |-> TRUE, val |-> JNum(SubSeq(toks, i, stop - 1)), nxt |-> stop]
    ELSE ParseFail

\* json.loads(text): ok is FALSE where json.loads raises.
json_loads(text) ==
    LET r == ParseValue(text, SkipWs(text, 1))
    IN  IF r.ok /\ SkipWs(text, r.nxt) = Len(text) + 1
        THEN [ok |-> TRUE, val |-> r.val]
        ELSE [ok |-> FALSE, val |-> NoValue]

RECURSIVE re_sub_fence(_, _)
\* re.sub of the fence followed by json and blanks (tagged) or of the fence and
\* blanks (not tagged), main.py lines 149 and 150: every match, left to right, is removed with the blanks after it.
re_sub_fence(text, tagged) ==
    IF text = <<>>
    THEN <<>>
    ELSE LET head == IF tagged THEN 2 ELSE 1
             hit == /\ text[1] = Fence
                    /\ tagged => (Len(text) >= 2 /\ text[2] = "json")
         IN  IF hit
             THEN re_sub_fence(SubSeq(text, SkipWs(text, head + 1), Len(text)), tagged)
             ELSE <<text[1]>> \o re_sub_fence(Tail(text), tagged)

\* str.find and str.rfind of one character: Python's 0-based index, -1 if absent.
find(text, c) ==
    LET at == {j \in 1..Len(text) : text[j] = c}
    IN  IF at = {} THEN -1 ELSE Min(at) - 1

rfind(text, c) ==
    LET at == {j \in 1..Len(text) : text[j] = c}
    IN  IF at = {} THEN -1 ELSE Max(at) - 1

\* text[a:b] for 0 <= a <= b
Slice(text, a, b) == SubSeq(text, a + 1, b)

Key(word) == <<word>>

\* The dict extract_json_from_text returns when no parse succeeds.
MinimalStructure(text) ==
    JObj(<< [k |-> Key("output"), v |-> JStr(text)],
            [k |-> Key("reasoning"), v |-> JStr(<<"Failed to parse structured response">>)],
            [k |-> Key("files"), v |-> JObj(<<>>)],
            [k |-> Key("next_steps"), v |-> JList(<<>>)] >>)

extract_json_from_text(raw) ==
    LET direct == json_loads(raw)
        text == re_sub_fence(re_sub_fence(raw, TRUE), FALSE)
        json_start == find(text, "{")
        json_end == rfind(text, "}") + 1
        inner == json_loads(Slice(text, json_start, json_end))
    IN  IF direct.ok
        THEN direct.val
        ELSE IF json_start >= 0 /\ json_end > json_start /\ inner.ok
        THEN inner.val
        ELSE MinimalStructure(text)


(***************************************************************************)
(* Bounds of the model.                                                    *)
(***************************************************************************)
\* Projects that CreateProject can allocate.
MaxProjects == 2

\* StartBuild requests accepted over a run of the system.
MaxBuilds == 2

\* Events beside the plain course of the builds over a run of the system: store
\* operations that raise, replies other than ReplyFirst, create_file requests.
\* A model call that raises is not counted: it writes nothing by itself.
MaxDeviations == 1

ProjectIds == 1..MaxProjects

(***************************************************************************)
(* The role catalogue and the phase list of execute_workflow.              *)
(***************************************************************************)
AgentRole ==
    {"ProductManager", "SystemArchitect", "BackendEngineer", "FrontendEngineer",
     "DatabaseEngineer", "QAEngineer", "DevOpsEngineer", "SecurityEngineer",
     "MobileEngineer", "MLEngineer", "DocumentationSpecialist", "UXDesigner"}

\* The phases with the backend implemented before the database is designed.
phases_backend_first ==
    << [role |-> "ProductManager", log_msg |-> "Analyzing requirements..."],
       [role |-> "UXDesigner", log_msg |-> "Designing user experience..."],
       [role |-> "SystemArchitect", log_msg |-> "Designing system architecture..."],
       [role |-> "BackendEngineer", log_msg |-> "Implementing backend..."],
       [role |-> "DatabaseEngineer", log_msg |-> "Designing database schema..."],
       [role |-> "FrontendEngineer", log_msg |-> "Building frontend..."],
       [role |-> "SecurityEngineer", log_msg |-> "Security review..."],
       [role |-> "QAEngineer", log_msg |-> "Writing tests..."],
       [role |-> "DevOpsEngineer", log_msg |-> "Setting up deployment..."],
       [role |-> "DocumentationSpecialist", log_msg |-> "Writing documentation..."] >>

\* Lines 584-605: the phases of the workflow, in order.
phases ==
    << [role |-> "ProductManager", log_msg |-> "Analyzing requirements..."],
       [role |-> "UXDesigner", log_msg |-> "Designing user experience..."],
       [role |-> "SystemArchitect", log_msg |-> "Designing system architecture..."],
       [role |-> "DatabaseEngineer", log_msg |-> "Designing database schema..."],
       [role |-> "BackendEngineer", log_msg |-> "Implementing backend..."],
       [role |-> "FrontendEngineer", log_msg |-> "Building frontend..."],
       [role |-> "SecurityEngineer", log_msg |-> "Security review..."],
       [role |-> "QAEngineer", log_msg |-> "Writing tests..."],
       [role |-> "DevOpsEngineer", log_msg |-> "Setting up deployment..."],
       [role |-> "DocumentationSpecialist", log_msg |-> "Writing documentation..."] >>

\* output_preview = ...[:200]
PreviewLen == 200

\* test_agents.py, lines 52-55: the agents the script calls, in order.
test_agents_list == <<"ProductManager", "SystemArchitect">>

(***************************************************************************)
(* Replies of the model (response.text) that Agent.execute can receive.    *)
(***************************************************************************)
StrLit(s) == <<Quote>> \o s \o <<Quote>>

Member(key, value) == StrLit(Key(key)) \o <<":">> \o value

\* {"output":"x","shared_memory_updates":{"k":"v"},"files":{"/a":"c"}}
ReplyFirst ==
    <<"{">> \o Member("output", StrLit(<<"x">>)) \o <<",">>
    \o Member("shared_memory_updates", <<"{">> \o Member("k", StrLit(<<"v">>)) \o <<"}">>)
    \o <<",">>
    \o Member("files", <<"{">> \o StrLit(<<"/", "a">>) \o <<":">> \o StrLit(<<"c">>) \o <<"}">>)
    \o <<"}">>

\* The same in a fenced block, with another value for k, and with the file given
\* under a.txt-style and /a.txt-style keys:
\* {"output":"x","shared_memory_updates":{"k":"w"},"files":{"a":"c","/a":"dd"}}
ReplySecond ==
    <<Fence, "json", " ", "{">> \o Member("output", StrLit(<<"x">>)) \o <<",">>
    \o Member("shared_memory_updates", <<"{">> \o Member("k", StrLit(<<"w">>)) \o <<"}">>)
    \o <<",">>
    \o Member("files", <<"{">> \o StrLit(<<"a">>) \o <<":">> \o StrLit(<<"c">>) \o <<",">>
                       \o StrLit(<<"/", "a">>) \o <<":">> \o StrLit(<<"d", "d">>) \o <<"}">>)
    \o <<"}", " ", Fence>>

\* A reply whose output is a list, not a string:
\* {"shared_memory_updates":{"k":"w"},"output":[]}
ReplyListOutput ==
    <<"{">>
    \o Member("shared_memory_updates", <<"{">> \o Member("k", StrLit(<<"w">>)) \o <<"}">>)
    \o <<",">> \o Member("output", <<"[", "]">>) \o <<"}">>

\* A reply with a file whose content is a number after one whose content is text:
\* {"output":"x","files":{"/a":"dd","/b":7}}
ReplyNumberFile ==
    <<"{">> \o Member("output", StrLit(<<"x">>)) \o <<",">>
    \o Member("files", <<"{">> \o StrLit(<<"/", "a">>) \o <<":">> \o StrLit(<<"d", "d">>)
                       \o <<",">> \o StrLit(<<"/", "b">>) \o <<":">> \o <<"7">> \o <<"}">>)
    \o <<"}">>

\* A reply that gives a number as the new content of the file of ReplyFirst:
\* {"output":"x","files":{"/a":77}}
ReplyNumberOverwrite ==
    <<"{">> \o Member("output", StrLit(<<"x">>)) \o <<",">>
    \o Member("files", <<"{">> \o StrLit(<<"/", "a">>) \o <<":">> \o <<"7", "7">> \o <<"}">>)
    \o <<"}">>

ReplyTexts ==
    {ReplyFirst, ReplySecond, ReplyListOutput, ReplyNumberFile, ReplyNumberOverwrite}

\* Inputs of create_file.
FilePaths == {<<"a">>, <<"/", "a">>}

FileContents == {<<"e", "e", "e">>}

(***************************************************************************)
(* State.                                                                  *)
(***************************************************************************)
VARIABLES
    GEMINI_API_KEY,  \* whether the key is configured (Agent.model is not None)
    projects,        \* table projects: id -> status, "absent" where there is no row
    project_files,   \* table project_files, in rowid order
    agent_logs,      \* table agent_logs, in rowid order
    shared_memory,   \* table shared_memory, in rowid order
    agent_status,    \* Agent.status of each role of orchestrator.agents
    tasks,           \* the background tasks added by start_build, in order
    running,         \* the task that holds the event loop, 0 when it is idle
    deviations,      \* events beside the plain course so far
    hist,            \* per task, what its run has done (history)
    last_update,     \* (project id, key) -> value of the last committed update (history)
    actor,           \* the project id the last step was made for (history)
    raw_text,        \* the argument of a call of extract_json_from_text on its own
    extracted,       \* whether that call has returned, and what
    response         \* the request of a read accessor taken on its own, and its answer

vars == <<GEMINI_API_KEY, projects, project_files, agent_logs, shared_memory,
          agent_status, tasks, running, deviations, hist, last_update,
          actor, raw_text, extracted, response>>

stores == <<projects, project_files, agent_logs, shared_memory>>

\* A SQLAlchemy session's unit of work: what db.add and attribute writes have
\* queued and the next db.commit() flushes.  id is the rowid of a row to update,
\* 0 for a row to insert.
EmptySession == [mem |-> <<>>, files |-> <<>>, logs |-> <<>>]

NewTask(project_id) ==
    [project |-> project_id, direct |-> FALSE, pc |-> "pending", phase |-> 0,
     memory_dict |-> <<>>, result |-> NoValue, db |-> EmptySession,
     exc |-> <<>>, success |-> FALSE]

\* History of a run: failed_at, the phase whose execute returned a failure (0 if
\* none); n_exec, the calls of Agent.execute; escaped, whether an exception left
\* Agent.execute; log_base, the project's log entries when the run started;
\* mem_at_start and files_at_start, the project's rows when the current phase
\* started; committed_mem and committed_files, what the run's phases committed;
\* cause, the output of the TaskResult of the failure; replies, what the model
\* calls of the run gave, in order.
NewHist ==
    [failed_at |-> 0, n_exec |-> 0, escaped |-> FALSE, log_base |-> 0, cause |-> <<>>,
     replies |-> <<>>,
     mem_at_start |-> <<>>, files_at_start |-> <<>>,
     committed_mem |-> <<>>, committed_files |-> {}]

NotExtracted == [called |-> FALSE, val |-> NoValue]

NoResponse == [url |-> <<>>, handler |-> "", status_code |-> 0, body |-> NoValue]

Init ==
    /\ GEMINI_API_KEY \in BOOLEAN
    /\ projects = [p \in ProjectIds |-> "absent"]
    /\ project_files = <<>>
    /\ agent_logs = <<>>
    /\ shared_memory = <<>>
    /\ agent_status = [r \in AgentRole |-> "idle"]
    /\ tasks = <<>>
    /\ running = 0
    /\ deviations = 0
    /\ hist = <<>>
    /\ last_update = <<>>
    /\ actor = 0
    /\ raw_text = <<>>
    /\ extracted = NotExtracted
    /\ response = NoResponse


(***************************************************************************)
(* Queries and the unit of work.                                           *)
(***************************************************************************)
\* A lookup that finds no existing entry, so that every update inserts.
FirstMemoryNone(project_id, key) == 0

\* A lookup by key alone, without the project.
FirstMemoryAnyProject(project_id, key) ==
    LET at == {i \in 1..Len(shared_memory) : shared_memory[i].key = key}
    IN  IF at = {} THEN 0 ELSE CHOOSE i \in at : \A j \in at : i <= j

\* db.query(SharedMemory).filter_by(project_id=..., key=...).first(): the rowid
\* of the first matching row, 0 for None.  The session does not autoflush, so a
\* query sees committed rows only.
FirstMemory(project_id, key) ==
    LET at == {i \in 1..Len(shared_memory) :
                   shared_memory[i].project_id = project_id /\ shared_memory[i].key = key}
    IN  IF at = {} THEN 0 ELSE Min(at)

\* db.query(ProjectFile).filter_by(project_id=..., file_path=...).first()
FirstFile(project_id, file_path) ==
    LET at == {i \in 1..Len(project_files) :
                   /\ project_files[i].project_id = project_id
                   /\ project_files[i].file_path = file_path}
    IN  IF at = {} THEN 0 ELSE Min(at)

RECURSIVE ApplyMemOps(_, _)
\* The flush of queued shared_memory writes: updates in place, inserts at the end.
ApplyMemOps(rows, ops) ==
    IF ops = <<>>
    THEN rows
    ELSE LET op == Head(ops)
             row == [project_id |-> op.project_id, key |-> op.key, value |-> op.value]
         IN  ApplyMemOps(IF op.id = 0 THEN Append(rows, row)
                         ELSE [rows EXCEPT ![op.id] = row],
                         Tail(ops))

RECURSIVE ApplyFileOps(_, _)
\* The flush of queued project_files writes.
ApplyFileOps(rows, ops) ==
    IF ops = <<>>
    THEN rows
    ELSE LET op == Head(ops)
             row == [project_id |-> op.project_id, file_path |-> op.file_path,
                     content |-> op.content.s, size |-> op.size]
         IN  ApplyFileOps(IF op.id = 0 THEN Append(rows, row)
                          ELSE [rows EXCEPT ![op.id] = row],
                          Tail(ops))

\* sqlite3 binds a str or an int to a Text column: a flush with a list or a dict
\* as content raises.
CanBind(session) ==
    \A i \in 1..Len(session.files) : session.files[i].content.t \in {"str", "int"}

RECURSIVE MemoryDictOf(_, _)
\* {sm.key: sm.value for sm in shared_memory} over the given rows.
MemoryDictOf(rows, acc) ==
    IF rows = <<>>
    THEN acc
    ELSE MemoryDictOf(Tail(rows), DictSet(acc, Head(rows).key, Head(rows).value))

\* db.query(SharedMemory).filter_by(project_id=project_id).all()
MemoryRows(project_id) ==
    SelectSeq(shared_memory, LAMBDA row : row.project_id = project_id)

FileRows(project_id) ==
    SelectSeq(project_files, LAMBDA row : row.project_id = project_id)

LogRows(project_id) ==
    SelectSeq(agent_logs, LAMBDA row : row.project_id = project_id)

LogRow(project_id, agent, level, message) ==
    [project_id |-> project_id, agent_name |-> agent, level |-> level,
     message |-> message]

(***************************************************************************)
(* Python operations on the extracted result.                              *)
(***************************************************************************)
\* word in result: a key of a dict, an element of a list, a substring of a str;
\* "raise" for an int (TypeError: argument of type 'int' is not iterable).
PyIn(result, word) ==
    CASE result.t = "dict" -> IF HasKey(result, Key(word)) THEN "yes" ELSE "no"
      [] result.t = "list" ->
            IF \E i \in 1..Len(result.l) : result.l[i] = JStr(Key(word))
            THEN "yes" ELSE "no"
      [] result.t = "str" ->
            IF \E i \in 1..Len(result.s) : result.s[i] = word THEN "yes" ELSE "no"
      [] OTHER -> "raise"

\* len(content): -1 where len raises TypeError.
PyLen(v) ==
    CASE v.t = "str" -> Len(v.s)
      [] v.t = "list" -> Len(v.l)
      [] v.t = "dict" -> Len(v.m)
      [] OTHER -> -1

\* A path stored as it was given.
PathAsGiven(file_path) == file_path

\* if not file_path.startswith('/'): file_path = '/' + file_path
NormalizePath(file_path) ==
    IF file_path # <<>> /\ file_path[1] = "/" THEN file_path ELSE <<"/">> \o file_path

\* The writes the loop of lines 287-301 queues for the items of one dict.
MemOps(project_id, items) ==
    [i \in 1..Len(items) |->
        [id |-> FirstMemory(project_id, items[i].k), project_id |-> project_id,
         key |-> items[i].k, value |-> items[i].v]]

\* The writes the loop of lines 307-327 queues for the items of one dict.
FileOps(project_id, items) ==
    [i \in 1..Len(items) |->
        [id |-> FirstFile(project_id, NormalizePath(items[i].k)),
         project_id |-> project_id, file_path |-> NormalizePath(items[i].k),
         content |-> items[i].v, size |-> PyLen(items[i].v)]]

Outcome(exc, db, commits) == [exc |-> exc, db |-> db, commits |-> commits]

\* The dict under result[word] when the guard of line 286 (306) lets the loop run;
\* the exception the guard or .items() raises; "skip" when the guard is false.
Guarded(result, word) ==
    LET has == PyIn(result, word)
        v == DictGet(result, Key(word), NoValue)
    IN  IF has = "raise" THEN "TypeError"
        ELSE IF has = "no" THEN "skip"
        ELSE IF result.t # "dict" THEN "TypeError"
        ELSE IF ~Truthy(v) THEN "skip"
        ELSE IF v.t # "dict" THEN "AttributeError"
        ELSE "loop"

\* Iterations of the loop over result[word], each of which queries the store.
QueryPoints(result, word) ==
    IF Guarded(result, word) = "loop" THEN Len(DictGet(result, Key(word), NoValue).m) ELSE 0

\* Lines 286-303 up to the commit.  qfault > 0: the query of that iteration raises.
MemoryLoop(task, qfault) ==
    LET g == Guarded(task.result, "shared_memory_updates")
        ops == MemOps(task.project, DictGet(task.result, Key("shared_memory_updates"), NoValue).m)
    IN  IF g = "skip" THEN Outcome(<<>>, task.db, FALSE)
        ELSE IF g # "loop" THEN Outcome(<<g>>, task.db, FALSE)
        ELSE IF qfault > 0
        THEN Outcome(<<"OperationalError">>,
                     [task.db EXCEPT !.mem = @ \o SubSeq(ops, 1, qfault - 1)], FALSE)
        ELSE Outcome(<<>>, [task.db EXCEPT !.mem = @ \o ops], TRUE)

\* Lines 306-329 up to the commit.  The loop stops at the first content len() refuses.
FilesLoop(task, qfault) ==
    LET g == Guarded(task.result, "files")
        ops == FileOps(task.project, DictGet(task.result, Key("files"), NoValue).m)
        bad == {i \in 1..Len(ops) : ops[i].size < 0}
        stop == IF bad = {} THEN 0 ELSE Min(bad)
        \* existing_file.content = content is done before len(content) raises
        half == IF stop > 0 /\ ops[stop].id > 0
                THEN <<[ops[stop] EXCEPT !.size = project_files[ops[stop].id].size]>>
                ELSE <<>>
    IN  IF g = "skip" THEN Outcome(<<>>, task.db, FALSE)
        ELSE IF g # "loop" THEN Outcome(<<g>>, task.db, FALSE)
        ELSE IF qfault > 0 /\ (stop = 0 \/ qfault <= stop)
        THEN Outcome(<<"OperationalError">>,
                     [task.db EXCEPT !.files = @ \o SubSeq(ops, 1, qfault - 1)], FALSE)
        ELSE IF stop > 0
        THEN Outcome(<<"TypeError">>,
                     [task.db EXCEPT !.files = @ \o SubSeq(ops, 1, stop - 1) \o half], FALSE)
        ELSE Outcome(<<>>, [task.db EXCEPT !.files = @ \o ops], TRUE)

\* str(value) as it appears in a message.
PyStr(v) ==
    CASE v.t = "str" -> v.s
      [] v.t = "list" -> IF v.l = <<>> THEN <<"[", "]">> ELSE <<"[", "...", "]">>
      [] OTHER -> <<"...">>

\* value[:PreviewLen] of a str or a list.
Preview(v) ==
    CASE v.t = "str" -> JStr(SubSeq(v.s, 1, IF Len(v.s) < PreviewLen THEN Len(v.s) ELSE PreviewLen))
      [] v.t = "list" -> JList(SubSeq(v.l, 1, IF Len(v.l) < PreviewLen THEN Len(v.l) ELSE PreviewLen))
      [] OTHER -> NoValue

\* Lines 332-342 up to the commit: the success entry is queued unless
\* result.get or the slice raises.
LogLoop(task, role) ==
    LET output == DictGet(task.result, Key("output"), JStr(<<"Task completed">>))
    IN  IF task.result.t # "dict" THEN Outcome(<<"AttributeError">>, task.db, FALSE)
        ELSE IF output.t \notin {"str", "list"} THEN Outcome(<<"TypeError">>, task.db, FALSE)
        ELSE Outcome(<<>>,
                     [task.db EXCEPT !.logs =
                         Append(@, LogRow(task.project, role, "success",
                                          <<"Completed: ">> \o PyStr(Preview(output))))],
                     TRUE)

\* TaskResult(success=True, output=..., files=..., next_steps=...) validates:
\* output: str, files: Optional[Dict[str, str]], next_steps: Optional[List[str]].
ValidTaskResult(result) ==
    LET output == DictGet(result, Key("output"), JStr(<<>>))
        files == DictGet(result, Key("files"), JObj(<<>>))
        next_steps == DictGet(result, Key("next_steps"), JList(<<>>))
    IN  /\ output.t = "str"
        /\ \/ files.t = "none"
           \/ files.t = "dict" /\ \A i \in 1..Len(files.m) : files.m[i].v.t = "str"
        /\ \/ next_steps.t = "none"
           \/ next_steps.t = "list" /\ \A i \in 1..Len(next_steps.l) : next_steps.l[i].t = "str"


(***************************************************************************)
(* The event loop.  execute_workflow, _log and Agent.execute are coroutines *)
(* that never await a pending future (generate_content and every session   *)
(* call are synchronous), so a background task that has started keeps the  *)
(* loop until it ends; the handlers, all async def, run on the same loop.   *)
(***************************************************************************)
\* A coroutine that awaited the model call would suspend there.
YieldsAtModelCall(pc) == pc = "agent_call"

\* Whether the coroutine suspends, handing the loop to other tasks, at pc.
YieldsAt(pc) == FALSE

Ended(pc) == pc \in {"done", "raised"}

Cost(departs) == IF departs THEN 1 ELSE 0

\* The step of task t to the given locals, at the given count of departures.
TaskMove(t, task, cost) ==
    /\ deviations + cost <= MaxDeviations
    /\ deviations' = deviations + cost
    /\ tasks' = [tasks EXCEPT ![t] = task]
    /\ running' = IF Ended(task.pc) \/ YieldsAt(task.pc) THEN 0 ELSE t
    /\ actor' = tasks[t].project
    /\ UNCHANGED <<GEMINI_API_KEY, raw_text, extracted, response>>

At(t, pc) == running = t /\ tasks[t].pc = pc

\* The role whose agent the task calls: that of its phase, or for the script the
\* one its list names.
RoleOf(task) ==
    IF task.direct THEN test_agents_list[task.phase] ELSE phases[task.phase].role

\* self.status = status: the agents of orchestrator.agents are those the status
\* accessor reads; a script has an Orchestrator, and so agents, of its own.
StatusSet(task, status) ==
    IF task.direct THEN agent_status ELSE [agent_status EXCEPT ![RoleOf(task)] = status]

OperationalError == <<"OperationalError">>

\* The loop runs a background task that is waiting: a new one starts at line 569.
EventLoopRun(t) ==
    /\ running = 0
    /\ ~Ended(tasks[t].pc)
    /\ tasks' = [tasks EXCEPT ![t].pc = IF @ = "pending" THEN "wf_begin" ELSE @]
    /\ running' = t
    /\ actor' = tasks[t].project
    /\ hist' = IF tasks[t].pc = "pending"
               THEN [hist EXCEPT ![t].log_base = Len(LogRows(tasks[t].project))]
               ELSE hist
    /\ UNCHANGED <<GEMINI_API_KEY, raw_text, extracted, response, stores, agent_status, deviations, last_update>>

(***************************************************************************)
(* Orchestrator.execute_workflow                                           *)
(***************************************************************************)
\* Lines 569-578: look the project up, set it running, commit.
WfBegin(t) ==
    /\ At(t, "wf_begin")
    /\ \E fault \in {"none", "query", "commit"} :
        LET task == tasks[t]
            exc == IF fault = "query" THEN OperationalError
                   ELSE IF projects[task.project] = "absent" THEN <<"Project not found">>
                   ELSE IF fault = "commit" THEN OperationalError
                   ELSE <<>>
        IN  /\ projects' = IF exc = <<>>
                           THEN [projects EXCEPT ![task.project] = "running"]
                           ELSE projects
            /\ TaskMove(t, [task EXCEPT !.pc = IF exc = <<>> THEN "wf_log_start" ELSE "wf_except",
                                        !.exc = exc],
                        Cost(fault # "none"))
            /\ UNCHANGED <<project_files, agent_logs, shared_memory, agent_status,
                           hist, last_update>>

\* A helper that puts the entry in front of the log.
OrchestratorLogInFront(project_id, agent, message) ==
    <<LogRow(project_id, agent, "info", message)>> \o agent_logs

\* A helper that keeps one entry, the latest, in place of the one before.
OrchestratorLogLatestOnly(project_id, agent, message) ==
    IF agent_logs = <<>>
    THEN <<LogRow(project_id, agent, "info", message)>>
    ELSE [agent_logs EXCEPT ![Len(agent_logs)] = LogRow(project_id, agent, "info", message)]

\* Orchestrator._log: one entry, always of level info.
OrchestratorLog(project_id, agent, message) ==
    Append(agent_logs, LogRow(project_id, agent, "info", message))

\* Line 581.
WfLogStart(t) ==
    /\ At(t, "wf_log_start")
    /\ \E fault \in BOOLEAN :
        LET task == tasks[t]
        IN  /\ agent_logs' = IF fault THEN agent_logs
                             ELSE OrchestratorLog(task.project, "Orchestrator",
                                      <<"Starting autonomous development workflow">>)
            /\ TaskMove(t, IF fault
                           THEN [task EXCEPT !.pc = "wf_except", !.exc = OperationalError]
                           ELSE [task EXCEPT !.pc = "phase_log", !.phase = 1],
                        Cost(fault))
            /\ UNCHANGED <<projects, project_files, shared_memory, agent_status,
                           hist, last_update>>

\* Line 608: the phase-start entry, under the role's name.
PhaseLog(t) ==
    /\ At(t, "phase_log")
    /\ \E fault \in BOOLEAN :
        LET task == tasks[t]
        IN  /\ agent_logs' = IF fault THEN agent_logs
                             ELSE OrchestratorLog(task.project, RoleOf(task),
                                                  <<phases[task.phase].log_msg>>)
            /\ hist' = IF fault THEN hist
                       ELSE [hist EXCEPT ![t].mem_at_start = MemoryRows(task.project),
                                         ![t].files_at_start = FileRows(task.project)]
            /\ TaskMove(t, IF fault
                           THEN [task EXCEPT !.pc = "wf_except", !.exc = OperationalError]
                           ELSE [task EXCEPT !.pc = "agent_enter"],
                        Cost(fault))
            /\ UNCHANGED <<projects, project_files, shared_memory, agent_status,
                           last_update>>


(***************************************************************************)
(* Agent.execute                                                           *)
(***************************************************************************)
RECURSIVE Recorded(_, _, _)
\* History: the dict d after the queued shared_memory writes, in order; with
\* scoped, keyed by (project id, key).
Recorded(d, ops, scoped) ==
    IF ops = <<>>
    THEN d
    ELSE Recorded(DictSet(d, IF scoped THEN <<Head(ops).project_id, Head(ops).key>>
                             ELSE Head(ops).key,
                          Head(ops).value),
                  Tail(ops), scoped)

\* db.commit() of the session: raises on a store failure or an unbindable
\* content, and then the unit of work is rolled back.
CommitRaises(session, cfault) ==
    IF cfault THEN OperationalError
    ELSE IF ~CanBind(session) THEN <<"InterfaceError">>
    ELSE <<>>

\* The flush of a session that commits, and what the history keeps of it.
Flush(t, session) ==
    /\ shared_memory' = ApplyMemOps(shared_memory, session.mem)
    /\ project_files' = ApplyFileOps(project_files, session.files)
    /\ agent_logs' = agent_logs \o session.logs
    /\ last_update' = Recorded(last_update, session.mem, TRUE)

FlushHist(h, session) ==
    [h EXCEPT !.committed_mem = Recorded(@, session.mem, FALSE),
              !.committed_files =
                  @ \cup {session.files[i].file_path : i \in 1..Len(session.files)}]

NoFlush == UNCHANGED <<shared_memory, project_files, agent_logs, last_update>>

\* The TaskResult execute returns: its locals are gone.
Returned(task, success) ==
    [task EXCEPT !.pc = "phase_check", !.success = success, !.memory_dict = <<>>,
                 !.result = NoValue, !.db = EmptySession, !.exc = <<>>]

\* A test that also turns away an agent whose last call failed.
NoModelOrError(task) == ~GEMINI_API_KEY \/ agent_status[RoleOf(task)] = "error"

\* if not self.model (line 231): __init__ makes the model when the key is set.
NoModel(task) == ~GEMINI_API_KEY

\* A return that marks the agent.
NoModelMarksError(task) == StatusSet(task, "error")

\* Agent.status at the return of lines 232-237: no statement has assigned it.
NoModelStatus(task) == agent_status

\* Lines 231-240: without a model the call returns a failure at once; else the
\* agent is working and opens its session.
AgentEnter(t) ==
    /\ At(t, "agent_enter")
    /\ LET task == tasks[t]
       IN  /\ agent_status' = IF NoModel(task)
                              THEN NoModelStatus(task)
                              ELSE StatusSet(task, "working")
           /\ hist' = [hist EXCEPT ![t].n_exec = @ + 1,
                                   ![t].failed_at = IF NoModel(task) /\ ~task.direct
                                                    THEN task.phase ELSE @,
                                   ![t].cause = IF NoModel(task)
                                                THEN <<"Gemini API key not configured">>
                                                ELSE @]
           /\ TaskMove(t, IF NoModel(task)
                          THEN Returned(task, FALSE)
                          ELSE [task EXCEPT !.pc = "agent_read", !.db = EmptySession],
                       0)
           /\ NoFlush
           /\ UNCHANGED projects

\* A snapshot that reads nothing.
MemorySnapshotEmpty(project_id) == <<>>

\* Lines 244-245: the snapshot of the project's shared memory.
MemorySnapshot(project_id) == MemoryDictOf(MemoryRows(project_id), <<>>)

AgentRead(t) ==
    /\ At(t, "agent_read")
    /\ \E fault \in BOOLEAN :
        LET task == tasks[t]
        IN  /\ TaskMove(t, IF fault
                           THEN [task EXCEPT !.pc = "agent_except", !.exc = OperationalError]
                           ELSE [task EXCEPT !.pc = "agent_call",
                                             !.memory_dict = MemorySnapshot(task.project)],
                        Cost(fault))
            /\ NoFlush
            /\ UNCHANGED <<projects, agent_status, hist>>

\* Lines 279-283 with the model call's outcome given: it raises, or returns a
\* text, which is extracted.
AgentCallWith(t, raises, text) ==
    LET task == tasks[t]
    IN  /\ raises => text = ReplyFirst
        /\ TaskMove(t, IF raises
                       THEN [task EXCEPT !.pc = "agent_except",
                                         !.exc = <<"CompletionFailure">>]
                       ELSE [task EXCEPT !.pc = "agent_memory",
                                         !.result = extract_json_from_text(text)],
                    Cost(~raises /\ text # ReplyFirst))
        /\ hist' = [hist EXCEPT ![t].replies =
                        Append(@, IF raises THEN <<"raises">> ELSE text)]
        /\ NoFlush
        /\ UNCHANGED <<projects, agent_status>>

\* Lines 279-283: the model call raises or returns a text, which is extracted.
AgentCall(t) ==
    /\ At(t, "agent_call")
    /\ \E raises \in BOOLEAN, text \in ReplyTexts : AgentCallWith(t, raises, text)

\* What follows a loop of the try block: the except clause if the loop or the
\* commit raised, else next_pc with the session flushed if it committed.
AfterStore(t, out, cfault, next_pc) ==
    LET task == tasks[t]
        exc == IF out.exc # <<>> THEN out.exc
               ELSE IF out.commits THEN CommitRaises(out.db, cfault)
               ELSE <<>>
        flushed == out.commits /\ exc = <<>>
    IN  /\ cfault => (out.exc = <<>> /\ out.commits)
        /\ IF flushed THEN Flush(t, out.db) ELSE NoFlush
        /\ hist' = IF flushed THEN [hist EXCEPT ![t] = FlushHist(@, out.db)] ELSE hist
        /\ TaskMove(t, [task EXCEPT !.pc = IF exc = <<>> THEN next_pc ELSE "agent_except",
                                    !.exc = exc,
                                    !.db = IF out.exc = <<>> /\ out.commits
                                           THEN EmptySession ELSE out.db],
                    Cost(cfault \/ out.exc = OperationalError))
        /\ UNCHANGED <<projects, agent_status>>

\* Lines 286-303.
AgentMemory(t) ==
    /\ At(t, "agent_memory")
    /\ \E qfault \in 0..QueryPoints(tasks[t].result, "shared_memory_updates"),
          cfault \in BOOLEAN :
        AfterStore(t, MemoryLoop(tasks[t], qfault), cfault, "agent_files")

\* Lines 306-329.
AgentFiles(t) ==
    /\ At(t, "agent_files")
    /\ \E qfault \in 0..QueryPoints(tasks[t].result, "files"), cfault \in BOOLEAN :
        AfterStore(t, FilesLoop(tasks[t], qfault), cfault, "agent_log")

\* Lines 332-342.
AgentLog(t) ==
    /\ At(t, "agent_log")
    /\ \E cfault \in BOOLEAN :
        AfterStore(t, LogLoop(tasks[t], RoleOf(tasks[t])), cfault, "agent_return")

\* Lines 344-351: idle, then the TaskResult, whose validation may raise.
AgentReturn(t) ==
    /\ At(t, "agent_return")
    /\ LET task == tasks[t]
           valid == ValidTaskResult(task.result)
       IN  /\ agent_status' = StatusSet(task, "idle")
           /\ TaskMove(t, IF valid THEN Returned(task, TRUE)
                          ELSE [task EXCEPT !.pc = "agent_except",
                                            !.exc = <<"ValidationError">>],
                       0)
           /\ NoFlush
           /\ UNCHANGED <<projects, hist>>

\* An except clause that marks the project failed.
ProjectsMarkedFailed(project_id) == [projects EXCEPT ![project_id] = "failed"]

\* The table projects after Agent.execute: no statement of it reads or writes a
\* Project.
ProjectsAfterExecute(project_id) == projects

\* Lines 353-375: error status, the error entry, a commit of the session (with
\* whatever the try block left queued in it), the failure result.  A commit that
\* raises here leaves execute as an exception.
AgentExcept(t) ==
    /\ At(t, "agent_except")
    /\ \E cfault \in BOOLEAN :
        LET task == tasks[t]
            session == [task.db EXCEPT !.logs =
                           Append(@, LogRow(task.project, RoleOf(task), "error",
                                            <<"Error: ">> \o task.exc))]
            exc == CommitRaises(session, cfault)
        IN  /\ agent_status' = StatusSet(task, "error")
            /\ IF exc = <<>> THEN Flush(t, session) ELSE NoFlush
            /\ hist' = IF exc = <<>>
                       THEN [hist EXCEPT ![t] = [FlushHist(@, session) EXCEPT
                                                    !.failed_at = IF task.direct THEN @
                                                                  ELSE task.phase,
                                                    !.cause = <<"Error: ">> \o task.exc]]
                       ELSE [hist EXCEPT ![t].escaped = TRUE]
            /\ TaskMove(t, IF exc = <<>> THEN Returned(task, FALSE)
                           ELSE IF task.direct THEN Returned(task, FALSE)
                           ELSE [Returned(task, FALSE) EXCEPT !.pc = "wf_except", !.exc = exc],
                        Cost(cfault))
            /\ projects' = ProjectsAfterExecute(task.project)


(***************************************************************************)
(* Orchestrator.execute_workflow, continued                                *)
(***************************************************************************)
\* A check of the result that lets every phase pass.
PhaseNeverFailed(success) == FALSE

\* Line 611: if not result.success
PhaseFailed(success) == ~success

\* Lines 607 and 611-612: an unsuccessful result raises "<role> phase failed";
\* a successful one moves to the next phase, or past the loop after the last.
PhaseCheck(t) ==
    /\ At(t, "phase_check")
    /\ ~tasks[t].direct
    /\ LET task == tasks[t]
       IN  TaskMove(t, IF PhaseFailed(task.success)
                       THEN [task EXCEPT !.pc = "wf_except",
                                         !.exc = <<RoleOf(task), " phase failed">>]
                       ELSE IF task.phase < Len(phases)
                       THEN [task EXCEPT !.pc = "phase_log", !.phase = @ + 1]
                       ELSE [task EXCEPT !.pc = "wf_complete"],
                   0)
    /\ NoFlush
    /\ UNCHANGED <<projects, agent_status, hist>>

\* Lines 615-616.
WfComplete(t) ==
    /\ At(t, "wf_complete")
    /\ \E fault \in BOOLEAN :
        LET task == tasks[t]
        IN  /\ projects' = IF fault THEN projects
                           ELSE [projects EXCEPT ![task.project] = "completed"]
            /\ TaskMove(t, IF fault
                           THEN [task EXCEPT !.pc = "wf_except", !.exc = OperationalError]
                           ELSE [task EXCEPT !.pc = "wf_log_done"],
                        Cost(fault))
            /\ NoFlush
            /\ UNCHANGED <<agent_status, hist>>

\* Line 618.
WfLogDone(t) ==
    /\ At(t, "wf_log_done")
    /\ \E fault \in BOOLEAN :
        LET task == tasks[t]
        IN  /\ agent_logs' = IF fault THEN agent_logs
                             ELSE OrchestratorLog(task.project, "Orchestrator",
                                      <<"Project generation completed successfully!">>)
            /\ TaskMove(t, IF fault
                           THEN [task EXCEPT !.pc = "wf_except", !.exc = OperationalError]
                           ELSE [task EXCEPT !.pc = "wf_finally"],
                        Cost(fault))
            /\ UNCHANGED <<projects, project_files, shared_memory, agent_status,
                           hist, last_update>>

\* The status the except clause writes (line 623).
AbortStatus == "failed"

\* Lines 620-624: look the project up again and, if it is there, set it failed
\* and commit.  A query or commit that raises here ends the handler.
WfExcept(t) ==
    /\ At(t, "wf_except")
    /\ \E fault \in {"none", "query", "commit"} :
        LET task == tasks[t]
            found == projects[task.project] # "absent"
            raises == fault = "query" \/ (fault = "commit" /\ found)
        IN  /\ fault = "commit" => found
            /\ projects' = IF found /\ ~raises
                           THEN [projects EXCEPT ![task.project] = AbortStatus]
                           ELSE projects
            /\ TaskMove(t, IF raises
                           THEN [task EXCEPT !.pc = "wf_finally", !.exc = OperationalError]
                           ELSE [task EXCEPT !.pc = "wf_except_log"],
                        Cost(fault # "none"))
            /\ NoFlush
            /\ UNCHANGED <<agent_status, hist>>

\* Lines 626-627: the entry naming the exception, then raise e.
WfExceptLog(t) ==
    /\ At(t, "wf_except_log")
    /\ \E fault \in BOOLEAN :
        LET task == tasks[t]
        IN  /\ agent_logs' = IF fault THEN agent_logs
                             ELSE OrchestratorLog(task.project, "Orchestrator",
                                                  <<"Workflow failed: ">> \o task.exc)
            /\ TaskMove(t, [task EXCEPT !.pc = "wf_finally",
                                        !.exc = IF fault THEN OperationalError ELSE @],
                        Cost(fault))
            /\ UNCHANGED <<projects, project_files, shared_memory, agent_status,
                           hist, last_update>>

\* Lines 628-629: db.close(); the coroutine returns, or leaves with the exception.
WfFinally(t) ==
    /\ At(t, "wf_finally")
    /\ TaskMove(t, [tasks[t] EXCEPT !.pc = IF tasks[t].exc = <<>> THEN "done" ELSE "raised"], 0)
    /\ NoFlush
    /\ UNCHANGED <<projects, agent_status, hist>>

(***************************************************************************)
(* The HTTP handlers.  Each runs on the event loop without awaiting, so it  *)
(* runs when the loop is free.                                             *)
(***************************************************************************)
\* create_project, lines 678-709: a fresh id, status initializing.
CreateProject ==
    /\ running = 0
    /\ \E project_id \in ProjectIds :
        /\ projects[project_id] = "absent"
        /\ \A other \in ProjectIds : other < project_id => projects[other] # "absent"
        /\ projects' = [projects EXCEPT ![project_id] = "initializing"]
        /\ actor' = project_id
    /\ UNCHANGED <<GEMINI_API_KEY, raw_text, extracted, response, project_files, agent_logs, shared_memory,
                   agent_status, tasks, running, deviations, hist, last_update>>

\* start_build, lines 712-731: 404 without the project, else the workflow is
\* added as a background task, whatever the project's status.
StartBuild(project_id) ==
    /\ running = 0
    /\ projects[project_id] # "absent"
    /\ Len(tasks) < MaxBuilds
    /\ tasks' = Append(tasks, NewTask(project_id))
    /\ hist' = Append(hist, NewHist)
    /\ actor' = project_id
    /\ UNCHANGED <<GEMINI_API_KEY, raw_text, extracted, response, stores, agent_status, running, deviations,
                   last_update>>

\* create_file, lines 820-852: upsert by (project id, normalized path).
CreateFile(project_id, path, content) ==
    /\ running = 0
    /\ deviations < MaxDeviations
    /\ LET file_path == NormalizePath(path)
           existing == FirstFile(project_id, file_path)
           row == [project_id |-> project_id, file_path |-> file_path,
                   content |-> content, size |-> Len(content)]
       IN  project_files' = IF existing > 0
                            THEN [project_files EXCEPT ![existing] = row]
                            ELSE Append(project_files, row)
    /\ deviations' = deviations + 1
    /\ actor' = project_id
    /\ UNCHANGED <<GEMINI_API_KEY, raw_text, extracted, response, projects, agent_logs, shared_memory, agent_status,
                   tasks, running, hist, last_update>>

\* test_agents.py, lines 26-47: the script adds a project of its own, with the
\* status testing, and goes on to call the agents of its list.  The script is a
\* process of its own on the same store; its calls are taken here while the
\* server's loop is idle.  One run of the script is followed.
TestAgents ==
    /\ running = 0
    /\ Len(tasks) < MaxBuilds
    /\ deviations < MaxDeviations
    /\ \A t \in 1..Len(tasks) : ~tasks[t].direct
    /\ \E project_id \in ProjectIds :
        /\ projects[project_id] = "absent"
        /\ \A other \in ProjectIds : other < project_id => projects[other] # "absent"
        /\ projects' = [projects EXCEPT ![project_id] = "testing"]
        /\ tasks' = Append(tasks, [NewTask(project_id) EXCEPT !.direct = TRUE,
                                                             !.phase = 1,
                                                             !.pc = "agent_enter"])
        /\ actor' = project_id
    /\ hist' = Append(hist, NewHist)
    /\ deviations' = deviations + 1
    /\ UNCHANGED <<GEMINI_API_KEY, raw_text, extracted, response, project_files, agent_logs,
                   shared_memory, agent_status, running, last_update>>

\* test_agents.py, lines 57-73: the result is printed, an exception of the call
\* as well, and the loop goes on to the next agent; lines 76-88 only read.
TestNext(t) ==
    /\ At(t, "phase_check")
    /\ tasks[t].direct
    /\ TaskMove(t, IF tasks[t].phase < Len(test_agents_list)
                   THEN [tasks[t] EXCEPT !.pc = "agent_enter", !.phase = @ + 1]
                   ELSE [tasks[t] EXCEPT !.pc = "done"],
                0)
    /\ NoFlush
    /\ UNCHANGED <<projects, agent_status, hist>>

\* get_agent_status, lines 877-888: per role of orchestrator.agents, its status.
get_agent_status ==
    [role \in AgentRole |-> [status |-> agent_status[role], role |-> role]]

Next ==
    \/ CreateProject
    \/ TestAgents
    \/ \E project_id \in ProjectIds : StartBuild(project_id)
    \/ \E project_id \in ProjectIds, path \in FilePaths, content \in FileContents :
          CreateFile(project_id, path, content)
    \/ \E t \in 1..Len(tasks) :
          \/ EventLoopRun(t)
          \/ WfBegin(t)
          \/ WfLogStart(t)
          \/ PhaseLog(t)
          \/ AgentEnter(t)
          \/ AgentRead(t)
          \/ AgentCall(t)
          \/ AgentMemory(t)
          \/ AgentFiles(t)
          \/ AgentLog(t)
          \/ AgentReturn(t)
          \/ AgentExcept(t)
          \/ PhaseCheck(t)
          \/ WfComplete(t)
          \/ WfLogDone(t)
          \/ WfExcept(t)
          \/ WfExceptLog(t)
          \/ WfFinally(t)
          \/ TestNext(t)

Spec == Init /\ [][Next]_vars

\* A step of background task t, or of the loop taking it up.  The model call is
\* named by its raising outcome, which is possible whenever the call is: the
\* step is enabled exactly when a step of the task is.
TaskStep(t) ==
    \/ EventLoopRun(t)
    \/ WfBegin(t) \/ WfLogStart(t) \/ PhaseLog(t)
    \/ AgentEnter(t) \/ AgentRead(t) \/ AgentMemory(t)
    \/ (At(t, "agent_call") /\ AgentCallWith(t, TRUE, ReplyFirst))
    \/ AgentFiles(t) \/ AgentLog(t) \/ AgentReturn(t) \/ AgentExcept(t)
    \/ PhaseCheck(t) \/ WfComplete(t) \/ WfLogDone(t)
    \/ WfExcept(t) \/ WfExceptLog(t) \/ WfFinally(t)
    \/ TestNext(t)

\* The behaviours with at most MaxFairBuilds background tasks.
MaxFairBuilds == 1

NextFair == Next /\ Len(tasks') <= MaxFairBuilds

\* The event loop runs every task that was added to it, and a task that runs
\* goes on to its next statement: every model call and every store operation
\* returns or raises.  No task stays for ever at a statement it can leave; as a
\* task has finitely many steps, that is to say that it ends.
FairSpec ==
    /\ Init
    /\ [][NextFair]_vars
    /\ \A t \in 1..MaxFairBuilds : WF_vars(t <= Len(tasks) /\ TaskStep(t))

(***************************************************************************)
(* extract_json_from_text on its own: a call with a text of the set below. *)
(***************************************************************************)
\* The length of the texts enumerated chunk by chunk.
MaxTextLen == 3

Alphabet == {"{", "}", Quote, ":", " ", Fence, "json", "x"}

\* Every text of at most MaxTextLen chunks.
ShortTexts == UNION {[1..n -> Alphabet] : n \in 0..MaxTextLen}

\* A reply with the six fields:
\* {"output":"x","reasoning":"x","files":{},"shared_memory_updates":{},
\*  "next_steps":[],"blockers":[]}
ReplyFull ==
    <<"{">> \o Member("output", StrLit(<<"x">>)) \o <<",">>
    \o Member("reasoning", StrLit(<<"x">>)) \o <<",">>
    \o Member("files", <<"{", "}">>) \o <<",">>
    \o Member("shared_memory_updates", <<"{", "}">>) \o <<",">>
    \o Member("next_steps", <<"[", "]">>) \o <<",">>
    \o Member("blockers", <<"[", "]">>) \o <<"}">>

\* An object whose output holds a code fence: {"output":"<fence>x<fence>"}
ReplyFenceInside == <<"{">> \o Member("output", StrLit(<<Fence, "x", Fence>>)) \o <<"}">>

\* Texts that json.loads reads as an object.
ObjectTexts == {ReplyFull, ReplyFirst, ReplyListOutput, ReplyFenceInside, <<"{", "}">>}

\* Texts that json.loads reads as a value that is no object: [], 7, "x".
OtherJsonTexts == {<<"[", "]">>, <<"7">>, StrLit(<<"x">>)}

\* T between fences, the opening one with the language tag json.
FenceWrap(T) == <<Fence, "json", " ">> \o T \o <<" ", Fence>>

\* T between fences without a tag.
PlainFenceWrap(T) == <<Fence, " ">> \o T \o <<" ", Fence>>

\* T in prose.
ProseWrap(T) == <<"Here", " ", "it", " ", "is", ":", " ">> \o T \o <<" ", "Done">>

Texts ==
    ShortTexts \cup ObjectTexts \cup OtherJsonTexts
    \cup {FenceWrap(T) : T \in ObjectTexts \cup OtherJsonTexts}
    \cup {PlainFenceWrap(T) : T \in ObjectTexts}
    \cup {ProseWrap(T) : T \in ObjectTexts}
    \cup {<<"not", " ", "json", " ", "at", " ", "all">>,
          <<Fence, "json", " ", "not", " ", "json", " ", Fence>>}

InitExtract ==
    /\ GEMINI_API_KEY \in BOOLEAN
    /\ projects = [p \in ProjectIds |-> "absent"]
    /\ project_files = <<>>
    /\ agent_logs = <<>>
    /\ shared_memory = <<>>
    /\ agent_status = [r \in AgentRole |-> "idle"]
    /\ tasks = <<>>
    /\ running = 0
    /\ deviations = 0
    /\ hist = <<>>
    /\ last_update = <<>>
    /\ actor = 0
    /\ raw_text \in Texts
    /\ extracted = NotExtracted
    /\ response = NoResponse

\* result = extract_json_from_text(text)
Extract ==
    /\ ~extracted.called
    /\ extracted' = [called |-> TRUE, val |-> extract_json_from_text(raw_text)]
    /\ UNCHANGED <<GEMINI_API_KEY, stores, agent_status, tasks, running, deviations,
                   hist, last_update, actor, raw_text, response>>

NextExtract == Extract

SpecExtract == InitExtract /\ [][NextExtract]_vars


(***************************************************************************)
(* The read accessors, each a GET handler that queries the store and        *)
(* returns; and the router that picks the handler of a request.            *)
(***************************************************************************)
\* Line 766: .limit(100)
LogLimit == 100

\* AgentLog.created_at (line 98): datetime.utcnow() at the INSERT of the row.
\* Every entry is inserted by a commit of its own and the clock has moved on at
\* each, so the time of a row is later than that of every row before it.
created_at(rowid) == rowid

\* .order_by(AgentLog.created_at.desc()): the rowids, latest time first; the
\* row at place k is the one with k - 1 rows of a later time.
order_by_desc(ids) ==
    [k \in 1..Cardinality(ids) |->
        CHOOSE i \in ids :
            Cardinality({j \in ids : created_at(j) > created_at(i)}) = k - 1]

\* .limit(n)
limit(rows, n) == SubSeq(rows, 1, Min({n, Len(rows)}))

\* A listing that keeps the order of the query.
not_reversed(rows) == rows

\* reversed(logs), line 776.
reversed(rows) == [k \in 1..Len(rows) |-> rows[Len(rows) + 1 - k]]

HTTPException(status_code, detail) == [status_code |-> status_code, body |-> detail]

Ok(body) == [status_code |-> 200, body |-> body]

\* get_logs, lines 760-780.
get_logs(project_id) ==
    LET ids == {i \in 1..Len(agent_logs) : agent_logs[i].project_id = project_id}
        logs == reversed(limit(order_by_desc(ids), LogLimit))
    IN  Ok([logs |-> [k \in 1..Len(logs) |->
                         [timestamp |-> created_at(logs[k]),
                          agent |-> agent_logs[logs[k]].agent_name,
                          level |-> agent_logs[logs[k]].level,
                          message |-> agent_logs[logs[k]].message]]])

\* [f.file_path for f in files]
PathsOf(files) == [k \in 1..Len(files) |-> files[k].file_path]

\* get_project, lines 733-758.
get_project(project_id) ==
    IF projects[project_id] = "absent"
    THEN HTTPException(404, "Project not found")
    ELSE Ok([id |-> project_id, status |-> projects[project_id],
             files |-> [k \in 1..Len(FileRows(project_id)) |->
                           [k |-> FileRows(project_id)[k].file_path,
                            v |-> FileRows(project_id)[k].content]]])

\* list_files, lines 782-791.
list_files(project_id) == Ok([files |-> PathsOf(FileRows(project_id))])

\* get_file, lines 793-817.
get_file(project_id, file_path) ==
    LET file == FirstFile(project_id, NormalizePath(file_path))
    IN  IF file = 0
        THEN HTTPException(404, "File not found")
        ELSE Ok([path |-> project_files[file].file_path,
                 content |-> project_files[file].content,
                 size |-> project_files[file].size])

\* Lines 864-867.  A path is a sequence of pieces of text and each pattern one
\* piece: the paths of this model are cut so that a pattern occurs in a path as
\* a piece or not at all.
config_patterns ==
    <<"Dockerfile", "docker-compose", ".yml", ".yaml", "package.json",
      "requirements.txt", ".config.js", ".gitignore", ".env", "alembic",
      "migrations", "tests/", ".test.", "spec.", "e2e/">>

\* pattern in file.file_path
InPath(pattern, file_path) == \E k \in 1..Len(file_path) : file_path[k] = pattern

\* get_project_files, lines 854-875.
get_project_files(project_id) ==
    LET all_files == FileRows(project_id)
        kept == SelectSeq(all_files,
                    LAMBDA file : ~\E n \in 1..Len(config_patterns) :
                                       InPath(config_patterns[n], file.file_path))
    IN  Ok([files |-> PathsOf(kept)])

\* The GET routes under /api/projects/{project_id}, in the order in which the
\* decorators register them (lines 733, 760, 782, 793, 854).
routes == <<"get_project", "get_logs", "list_files", "get_file", "get_project_files">>

\* Whether a route's path matches the rest of a URL after the project id.
\* {file_path:path} takes whatever follows /files/.
Matches(route, rest) ==
    CASE route = "get_project" -> rest = <<>>
      [] route = "get_logs" -> rest = <<"/logs">>
      [] route = "list_files" -> rest = <<"/files">>
      [] route = "get_file" -> rest # <<>> /\ rest[1] = "/files/"
      [] route = "get_project_files" -> rest = <<"/files/", "project">>

\* The router takes the first route that matches; 0 if there is none.
Router(rest) ==
    LET found == {n \in 1..Len(routes) : Matches(routes[n], rest)}
    IN  IF found = {} THEN 0 ELSE Min(found)

\* The answer to GET /api/projects/{project_id}<rest>.
Answer(project_id, rest) ==
    LET n == Router(rest)
        handler == IF n = 0 THEN "" ELSE routes[n]
        answer == CASE handler = "get_project" -> get_project(project_id)
                    [] handler = "get_logs" -> get_logs(project_id)
                    [] handler = "list_files" -> list_files(project_id)
                    [] handler = "get_file" -> get_file(project_id, Tail(rest))
                    [] handler = "get_project_files" -> get_project_files(project_id)
                    [] OTHER -> HTTPException(404, "Not Found")
    IN  [url |-> <<project_id>> \o rest, handler |-> handler,
         status_code |-> answer.status_code, body |-> answer.body]

\* Stores for the accessors to read: every choice of files with a short log, and
\* every length of log with all the files.
MaxExtraLogs == 3

StoredPaths ==
    <<<<"/", "src/", "app.py">>, <<"/", ".env">>, <<"/", "tests/", "unit.py">>,
      <<"/", "Dockerfile">>, <<"/", "project">>, <<"/", "docs/", "spec.", "md">>>>

\* The files of project 1 at the chosen places of StoredPaths, and one of project 2.
FileTable(chosen) ==
    LET at == SelectSeq([n \in 1..Len(StoredPaths) |-> n], LAMBDA n : n \in chosen)
    IN  <<[project_id |-> 2, file_path |-> StoredPaths[1], content |-> <<"p">>, size |-> 1]>>
        \o [k \in 1..Len(at) |->
               [project_id |-> 1, file_path |-> StoredPaths[at[k]],
                content |-> <<"c">>, size |-> 1]]

\* A log of n1 entries of project 1 and n2 of project 2, taking turns while both
\* have entries left; each message is the entry's place in the log.
LogTable(n1, n2) ==
    LET both == 2 * Min({n1, n2})
        owner(i) == IF i <= both THEN (IF i % 2 = 1 THEN 1 ELSE 2)
                    ELSE IF n1 > n2 THEN 1 ELSE 2
    IN  [i \in 1..(n1 + n2) |->
            LogRow(owner(i), "Orchestrator", "info", <<ToString(i)>>)]

LogCounts == {0, 1, LogLimit, LogLimit + 1, LogLimit + MaxExtraLogs}

Requests ==
    {<<>>, <<"/logs">>, <<"/files">>, <<"/files/", "project">>,
     <<"/files/", "src/", "app.py">>, <<"/files/", "/", ".env">>}

InitRead ==
    /\ GEMINI_API_KEY \in BOOLEAN
    /\ projects = [p \in ProjectIds |-> IF p = 1 THEN "initializing" ELSE "absent"]
    /\ \E chosen \in SUBSET (1..Len(StoredPaths)), n1 \in LogCounts, n2 \in {0, 2} :
           /\ chosen = 1..Len(StoredPaths) \/ (n1 = 1 /\ n2 = 2)
           /\ project_files = FileTable(chosen)
           /\ agent_logs = LogTable(n1, n2)
    /\ shared_memory = <<>>
    /\ agent_status = [r \in AgentRole |-> "idle"]
    /\ tasks = <<>>
    /\ running = 0
    /\ deviations = 0
    /\ hist = <<>>
    /\ last_update = <<>>
    /\ actor = 0
    /\ raw_text = <<>>
    /\ extracted = NotExtracted
    /\ response = NoResponse

\* A GET request under /api/projects/{project_id} and its answer; one request
\* is followed.
Get(project_id, rest) ==
    /\ response = NoResponse
    /\ response' = Answer(project_id, rest)
    /\ UNCHANGED <<GEMINI_API_KEY, stores, agent_status, tasks, running, deviations,
                   hist, last_update, actor, raw_text, extracted>>

NextRead == \E project_id \in ProjectIds, rest \in Requests : Get(project_id, rest)

SpecRead == InitRead /\ [][NextRead]_vars


(***************************************************************************)
(* Properties.                                                             *)
(***************************************************************************)
Tasks == 1..Len(tasks)

\* The log entries of task t's project since its run started.
RunLog(t) ==
    LET rows == LogRows(tasks[t].project)
    IN  SubSeq(rows, hist[t].log_base + 1, Len(rows))

\* A phase-start entry: written by _log under a role's name.
IsPhaseStart(row) == row.level = "info" /\ row.agent_name # "Orchestrator"

PhaseStarts(t) == SelectSeq(RunLog(t), IsPhaseStart)

\* An Agent.execute call of task t is in progress.
InExecute(t) ==
    tasks[t].pc \in {"agent_read", "agent_call", "agent_memory", "agent_files",
                     "agent_log", "agent_return", "agent_except"}

\* The run of task t is past its phase loop, in or after the except clause.
Aborting(t) == tasks[t].pc \in {"wf_except", "wf_except_log", "wf_finally", "raised"}

\* C1: once a phase's Agent.execute has returned a failure, the run only checks
\* the result and aborts: it stays in that phase, the run's log holds no
\* phase-start entry beyond the failing phase's, execute has been called once per
\* phase up to the failing one and never again, and the except clause, when its
\* commit returns, has written the status failed (at the entry it then logs and
\* at the end of a handler that did not raise).
C1_AbortOnFailedPhase ==
    \A t \in Tasks :
        hist[t].failed_at # 0 =>
            /\ tasks[t].pc = "phase_check" \/ Aborting(t)
            /\ tasks[t].phase = hist[t].failed_at
            /\ hist[t].n_exec = hist[t].failed_at
            /\ running = t => Len(PhaseStarts(t)) = hist[t].failed_at
            /\ (running = t /\ tasks[t].pc = "wf_except_log")
                   => projects[tasks[t].project] = "failed"
            /\ (running = t /\ tasks[t].pc = "wf_finally" /\ tasks[t].exc # OperationalError)
                   => projects[tasks[t].project] = "failed"

\* C1 witness: the fifth phase failed, the run is at its end and the project failed.
C1_Witness ==
    \E t \in Tasks :
        /\ hist[t].failed_at = 5
        /\ running = t
        /\ tasks[t].pc = "wf_finally"
        /\ projects[tasks[t].project] = "failed"
        /\ Len(PhaseStarts(t)) = 5

\* The canonical order of the phases, by role: requirements analysis, UX design,
\* system architecture, database design, backend, frontend, security review,
\* tests, deployment, documentation.
CanonicalOrder ==
    <<"ProductManager", "UXDesigner", "SystemArchitect", "DatabaseEngineer",
      "BackendEngineer", "FrontendEngineer", "SecurityEngineer", "QAEngineer",
      "DevOpsEngineer", "DocumentationSpecialist">>

\* Every phase of the run of task t has returned success.
AllPhasesSucceeded(t) ==
    /\ tasks[t].pc \in {"wf_complete", "wf_log_done"} \/ Aborting(t) \/ tasks[t].pc = "done"
    /\ tasks[t].phase = Len(phases)
    /\ hist[t].failed_at = 0
    /\ ~hist[t].escaped
    /\ hist[t].n_exec = Len(phases)

\* C2: a run whose ten phases all returned success has appended exactly ten
\* phase-start entries, one per role in the canonical order; its status is
\* completed from the commit of line 616 on, and when the run returns it has
\* ended with the status completed.
C2_CompletedRun ==
    \A t \in Tasks :
        (running = t /\ AllPhasesSucceeded(t)) =>
            /\ [i \in 1..Len(PhaseStarts(t)) |-> PhaseStarts(t)[i].agent_name] = CanonicalOrder
            /\ tasks[t].pc = "wf_log_done" => projects[tasks[t].project] = "completed"
            /\ (tasks[t].pc = "wf_finally" /\ tasks[t].exc = <<>>)
                   => projects[tasks[t].project] = "completed"

\* C2 witness: a run returns after ten successful phases.
C2_Witness ==
    \E t \in Tasks :
        /\ running = t
        /\ AllPhasesSucceeded(t)
        /\ tasks[t].pc = "wf_finally"
        /\ tasks[t].exc = <<>>
        /\ Len(PhaseStarts(t)) = 10
        /\ projects[tasks[t].project] = "completed"


\* The moves of a project's status that the workflow is meant to make.
StatusMoves ==
    {<<"initializing", "running">>, <<"running", "completed">>, <<"running", "failed">>}

\* C3: a project's status only moves initializing -> running -> completed or
\* failed: a created project starts initializing, every later change is one of
\* these moves, and so a completed or failed status never changes again, also
\* when StartBuild is called again for the project.  (The project a test script
\* adds with the status testing is outside this lifecycle.)
C3_StatusMonotonic ==
    [][\A p \in ProjectIds :
          (projects'[p] # projects[p] /\ projects[p] # "testing") =>
              IF projects[p] = "absent"
              THEN projects'[p] \in {"initializing", "testing"}
              ELSE <<projects[p], projects'[p]>> \in StatusMoves]_vars

\* The rows of a table that belong to project q, read from the table itself.
RowsOf(table, q) == SelectSeq(table, LAMBDA row : row.project_id = q)

\* C4: when a phase has failed and the run has aborted, every shared-memory entry
\* and every file the project had when the failing phase began still has the
\* value it had then.
C4_FailedPhaseLeavesState ==
    \A t \in Tasks :
        (running = t /\ hist[t].failed_at # 0 /\ tasks[t].pc = "wf_finally") =>
            LET mem == RowsOf(shared_memory, tasks[t].project)
                files == RowsOf(project_files, tasks[t].project)
            IN  /\ Len(mem) >= Len(hist[t].mem_at_start)
                /\ Len(files) >= Len(hist[t].files_at_start)
                /\ \A i \in 1..Len(hist[t].mem_at_start) : mem[i] = hist[t].mem_at_start[i]
                /\ \A i \in 1..Len(hist[t].files_at_start) : files[i] = hist[t].files_at_start[i]

\* C5: no exception leaves Agent.execute, and when a failure raised inside its
\* try block has made it return, the agent's status is error, the project's log
\* ends with the one error entry of the run, written under the agent's name, and
\* the result is a failure.
C5_ExecuteContainsFailures ==
    \A t \in Tasks :
        /\ ~hist[t].escaped
        /\ (running = t /\ tasks[t].pc = "phase_check" /\ hist[t].failed_at # 0 /\ GEMINI_API_KEY)
               => LET log == RowsOf(agent_logs, tasks[t].project)
                      run == SubSeq(log, hist[t].log_base + 1, Len(log))
                  IN  /\ ~tasks[t].success
                      /\ agent_status[RoleOf(tasks[t])] = "error"
                      /\ Len(SelectSeq(run, LAMBDA row : row.level = "error")) = 1
                      /\ log[Len(log)].level = "error"
                      /\ log[Len(log)].agent_name = RoleOf(tasks[t])

\* C6: when phase i+1 of a run calls the model, the snapshot of shared memory it
\* read holds every key the run's earlier phases committed, with the latest
\* value committed for it, and every file those phases committed is a row of the
\* project when the phase starts and ever after.
C6_PhaseSeesEarlierPhases ==
    \A t \in Tasks :
        /\ (running = t /\ tasks[t].pc = "agent_call") =>
               \A i \in 1..Len(hist[t].committed_mem) :
                   /\ HasKey(JObj(tasks[t].memory_dict), hist[t].committed_mem[i].k)
                   /\ DictGet(JObj(tasks[t].memory_dict), hist[t].committed_mem[i].k, NoValue)
                          = hist[t].committed_mem[i].v
        /\ \A file_path \in hist[t].committed_files :
               \E i \in 1..Len(project_files) :
                   /\ project_files[i].project_id = tasks[t].project
                   /\ project_files[i].file_path = file_path

\* C6 witness: the third phase of a run calls the model with a snapshot that
\* holds the value the second phase wrote over the first phase's.
C6_Witness ==
    \E t \in Tasks :
        /\ running = t
        /\ tasks[t].pc = "agent_call"
        /\ tasks[t].phase = 3
        /\ hist[t].committed_mem = <<[k |-> Key("k"), v |-> JStr(<<"w">>)]>>
        /\ tasks[t].memory_dict = <<[k |-> Key("k"), v |-> JStr(<<"w">>)]>>
        /\ hist[t].committed_files = {<<"/", "a">>}

\* C7: no two Agent.execute calls are in progress for the same project at once.
C7_OneExecutePerProject ==
    \A t1, t2 \in Tasks :
        (t1 # t2 /\ tasks[t1].project = tasks[t2].project)
            => ~(InExecute(t1) /\ InExecute(t2))

\* C7 witness: two builds of one project have been started, and one is inside
\* Agent.execute while the other waits.
C7_Witness ==
    \E t1, t2 \in Tasks :
        /\ t1 # t2
        /\ tasks[t1].project = tasks[t2].project
        /\ InExecute(t1)
        /\ tasks[t1].pc = "agent_files"
        /\ tasks[t2].pc = "pending"

\* C8: a step taken for one project leaves the shared memory, the files and the
\* log of every other project as they were, and a snapshot an agent reads holds
\* only entries of its own project.
C8_ProjectIsolation ==
    [][/\ \A q \in ProjectIds :
              q # actor' =>
                  /\ RowsOf(shared_memory, q)' = RowsOf(shared_memory, q)
                  /\ RowsOf(project_files, q)' = RowsOf(project_files, q)
                  /\ RowsOf(agent_logs, q)' = RowsOf(agent_logs, q)
       /\ \A t \in Tasks :
              tasks'[t].memory_dict # tasks[t].memory_dict =>
                  \A i \in 1..Len(tasks'[t].memory_dict) :
                      \E j \in 1..Len(shared_memory) :
                          /\ shared_memory[j].project_id = tasks[t].project
                          /\ shared_memory[j].key = tasks'[t].memory_dict[i].k
                          /\ shared_memory[j].value = tasks'[t].memory_dict[i].v]_vars

\* C8 witness: an agent of project 2 holds a snapshot of its project's entry
\* while project 1 has an entry under the same key with another value, and both
\* projects have files and log entries.
C8_Witness ==
    \E t \in Tasks :
        /\ running = t
        /\ tasks[t].project = 2
        /\ tasks[t].pc = "agent_call"
        /\ tasks[t].memory_dict = <<[k |-> Key("k"), v |-> JStr(<<"v">>)]>>
        /\ RowsOf(shared_memory, 1) = <<[project_id |-> 1, key |-> Key("k"), value |-> JStr(<<"w">>)]>>
        /\ RowsOf(project_files, 1) # <<>>
        /\ RowsOf(project_files, 2) # <<>>
        /\ RowsOf(agent_logs, 1) # <<>>

\* C9: shared memory holds at most one entry per (project, key), and the entry's
\* value is that of the update committed last for the key.
C9_LastWriteWins ==
    /\ \A i, j \in 1..Len(shared_memory) :
           (shared_memory[i].project_id = shared_memory[j].project_id
                /\ shared_memory[i].key = shared_memory[j].key) => i = j
    /\ \A i \in 1..Len(shared_memory) :
           \E u \in 1..Len(last_update) :
               /\ last_update[u].k = <<shared_memory[i].project_id, shared_memory[i].key>>
               /\ last_update[u].v = shared_memory[i].value
    /\ \A u \in 1..Len(last_update) :
           \E i \in 1..Len(shared_memory) :
               last_update[u].k = <<shared_memory[i].project_id, shared_memory[i].key>>

\* C9 witness: a phase has written w over the v the project had under k when the
\* phase began, and the project has the one entry.
C9_Witness ==
    \E t \in Tasks :
        /\ running = t
        /\ tasks[t].pc = "agent_files"
        /\ hist[t].mem_at_start =
               <<[project_id |-> tasks[t].project, key |-> Key("k"), value |-> JStr(<<"v">>)]>>
        /\ RowsOf(shared_memory, tasks[t].project) =
               <<[project_id |-> tasks[t].project, key |-> Key("k"), value |-> JStr(<<"w">>)]>>

\* C10: the files table holds exactly one row per (project, normalized path), also
\* after a reply whose files name one path with and without the leading slash.
C10_OneRowPerPath ==
    \A i, j \in 1..Len(project_files) :
        (project_files[i].project_id = project_files[j].project_id
             /\ project_files[i].file_path = project_files[j].file_path) => i = j


\* The fields a result is meant to have.
SixFields ==
    {"output", "reasoning", "files", "shared_memory_updates", "next_steps", "blockers"}

\* C11: every row of the files table has a size equal to the length of its
\* content, whether the row was inserted or overwritten, by Agent.execute or by
\* create_file.
C11_SizeIsContentLength ==
    \A i \in 1..Len(project_files) :
        project_files[i].size = Len(project_files[i].content)

\* C12: for every input text, extract_json_from_text returns an object that has
\* the six fields output, reasoning, files, shared_memory_updates, next_steps
\* and blockers.
C12_ExtractReturnsSixFields ==
    extracted.called =>
        /\ extracted.val.t = "dict"
        /\ \A field \in SixFields : HasKey(extracted.val, Key(field))

\* No parse of extract_json_from_text succeeds on raw: neither the text as it is
\* nor the part of the unfenced text from its first { to its last }.
NoParse(raw) ==
    LET stripped == re_sub_fence(re_sub_fence(raw, TRUE), FALSE)
        first == find(stripped, "{")
        last == rfind(stripped, "}") + 1
    IN  /\ ~json_loads(raw).ok
        /\ ~(first >= 0 /\ last > first /\ json_loads(Slice(stripped, first, last)).ok)

\* C13: when no parse succeeds, the result is the fallback whose output is the
\* raw input text, chunk for chunk, also when the text holds code fences, whose
\* files is the empty mapping and whose next_steps is the empty list.
C13_FallbackKeepsRawText ==
    (extracted.called /\ NoParse(raw_text)) =>
        /\ extracted.val.t = "dict"
        /\ DictGet(extracted.val, Key("output"), NoValue) = JStr(raw_text)
        /\ DictGet(extracted.val, Key("files"), NoValue) = JObj(<<>>)
        /\ DictGet(extracted.val, Key("next_steps"), NoValue) = JList(<<>>)

\* C14: for every text T that parses as an object, the result for T between
\* fences with a language tag is the result for T itself.
C14_FenceWrapSameObject ==
    \A T \in ObjectTexts :
        (extracted.called /\ raw_text = FenceWrap(T))
            => extracted.val = extract_json_from_text(T)


\* The most recent log entry of project q.
LastLog(q) == RowsOf(agent_logs, q)[Len(RowsOf(agent_logs, q))]

\* An exception reached the except clause of the run of task t from outside
\* Agent.execute: no phase returned a failure and none left execute by raising.
FailedOutsideExecute(t) == hist[t].failed_at = 0 /\ ~hist[t].escaped

\* C15: an exception raised in execute_workflow outside Agent.execute is caught
\* at the top level: the call does not end by raising to the background task
\* runner, and at its end the project's status is failed and the project's most
\* recent log entry is the Orchestrator's entry describing the exception.
C15_WorkflowContainsFailures ==
    \A t \in Tasks :
        FailedOutsideExecute(t) =>
            /\ tasks[t].pc # "raised"
            /\ (running = t /\ tasks[t].pc = "wf_finally" /\ tasks[t].exc # <<>>)
                   => /\ projects[tasks[t].project] = "failed"
                      /\ RowsOf(agent_logs, tasks[t].project) # <<>>
                      /\ LastLog(tasks[t].project).agent_name = "Orchestrator"
                      /\ LastLog(tasks[t].project).message
                             = <<"Workflow failed: ">> \o tasks[t].exc

\* The except clause of the run of task t has appended its entry after a phase failed.
AbortLogged(t) ==
    /\ running = t
    /\ tasks[t].pc = "wf_finally"
    /\ hist[t].failed_at # 0
    /\ tasks[t].exc = <<RoleOf(tasks[t]), " phase failed">>

\* C16: the entry the Orchestrator appends for the abort after a failed phase has
\* the level error and names the role whose phase failed.
C16_AbortLogIsError ==
    \A t \in Tasks :
        AbortLogged(t) =>
            /\ LastLog(tasks[t].project).agent_name = "Orchestrator"
            /\ LastLog(tasks[t].project).level = "error"
            /\ \E i \in 1..Len(LastLog(tasks[t].project).message) :
                   LastLog(tasks[t].project).message[i] = RoleOf(tasks[t])

\* C17: when every phase succeeded and the run returns, the Orchestrator's final
\* entry has the level success and the project's status is completed, which it
\* was before the entry was appended.
C17_FinalLogIsSuccess ==
    \A t \in Tasks :
        /\ (running = t /\ AllPhasesSucceeded(t) /\ tasks[t].pc = "wf_finally"
                /\ tasks[t].exc = <<>>)
               => /\ LastLog(tasks[t].project).agent_name = "Orchestrator"
                  /\ LastLog(tasks[t].project).level = "success"
                  /\ projects[tasks[t].project] = "completed"
        /\ (running = t /\ tasks[t].pc = "wf_log_done")
               => projects[tasks[t].project] = "completed"

\* sub occurs in seq as a run of consecutive chunks.
Contains(seq, sub) ==
    \E i \in 0..(Len(seq) - Len(sub)) : SubSeq(seq, i + 1, i + Len(sub)) = sub

\* The cause of the failure of the run of task t: the output of the failing
\* TaskResult, or the exception raised outside the phases.
Cause(t) == IF hist[t].failed_at # 0 THEN hist[t].cause ELSE tasks[t].exc

\* C18: when a workflow has ended with the project's status failed, the
\* project's most recent log entry carries the cause of the failure, whatever
\* the cause, an agent without a configured model included.
C18_LastLogCarriesCause ==
    \A t \in Tasks :
        (running = t /\ tasks[t].pc = "wf_finally" /\ tasks[t].exc # <<>>
             /\ projects[tasks[t].project] = "failed")
            => /\ RowsOf(agent_logs, tasks[t].project) # <<>>
               /\ Contains(LastLog(tasks[t].project).message, Cause(t))


\* Task t is at a statement of Agent.execute: its next step is one of the call.
AtExecute(t) == running = t /\ (tasks[t].pc = "agent_enter" \/ InExecute(t))

\* C19: no step of Agent.execute creates, changes or deletes a row of the table
\* projects, whatever the project's status and whether the call is made by the
\* workflow or directly, and whether it succeeds or fails; the status of an
\* existing project is changed by steps of execute_workflow only.
C19_ExecuteLeavesProjects ==
    [][/\ (\E t \in Tasks : AtExecute(t)) => projects' = projects
       /\ \A p \in ProjectIds :
              (projects[p] # "absent" /\ projects'[p] # projects[p]) =>
                  \E t \in Tasks :
                      /\ running = t
                      /\ ~tasks[t].direct
                      /\ tasks[t].project = p
                      /\ tasks[t].pc \in {"wf_begin", "wf_complete", "wf_except"}]_vars

\* C19 witness: a script has called execute directly on its project of status
\* testing, the first call returned success and the second a failure, and the
\* project still has the status testing.
C19_Witness ==
    \E t \in Tasks :
        /\ tasks[t].direct
        /\ running = t
        /\ tasks[t].pc = "phase_check"
        /\ tasks[t].phase = 2
        /\ ~tasks[t].success
        /\ hist[t].n_exec = 2
        /\ hist[t].committed_mem # <<>>
        /\ LastLog(tasks[t].project).level = "error"
        /\ projects[tasks[t].project] = "testing"

\* C20: the status accessor's value for a role is working exactly while a call
\* of Agent.execute of that role is in progress, idle once the role's call has
\* returned success and error once it has returned a failure.
C20_StatusAccessor ==
    /\ \A t \in Tasks :
           (running = t /\ ~tasks[t].direct) =>
               /\ InExecute(t) => get_agent_status[RoleOf(tasks[t])].status = "working"
               /\ tasks[t].pc = "phase_check" =>
                      get_agent_status[RoleOf(tasks[t])].status
                          = IF tasks[t].success THEN "idle" ELSE "error"
    /\ \A role \in AgentRole :
           get_agent_status[role].status = "working" =>
               \E t \in Tasks :
                   ~tasks[t].direct /\ InExecute(t) /\ RoleOf(tasks[t]) = role


\* The stored paths of project q, in rowid order, that hold none of the fifteen
\* configured pieces.
FilteredListing(q) ==
    SelectSeq(PathsOf(FileRows(q)),
              LAMBDA path : \A n \in 1..15 : ~InPath(config_patterns[n], path))

\* C21: a request for the filtered file listing of a project is answered by the
\* filtered listing, not by the single-file accessor: its answer is exactly the
\* stored paths of that project that contain none of the fifteen substrings.
C21_FilteredListingAnswers ==
    \A q \in ProjectIds :
        response.url = <<q, "/files/", "project">> =>
            /\ response.handler = "get_project_files"
            /\ response.status_code = 200
            /\ response.body = [files |-> FilteredListing(q)]


\* Sequence old is the beginning of sequence new.
IsPrefix(old, new) == Len(old) <= Len(new) /\ SubSeq(new, 1, Len(old)) = old

MostRecent(rows, n) == SubSeq(rows, Max({1, Len(rows) - n + 1}), Len(rows))

\* C23: the log accessor's answer for project q holds only entries of q, oldest
\* first in the order in which they were appended, and of a log of more than
\* 100 entries the most recent 100, in that order.
C23_LogsOldestFirstBounded ==
    \A q \in ProjectIds :
        response.url = <<q, "/logs">> =>
            LET shown == MostRecent(LogRows(q), 100)
                logs == response.body.logs
            IN  /\ response.status_code = 200
                /\ Len(logs) = Len(shown)
                /\ \A k \in 1..Len(shown) :
                       /\ logs[k].agent = shown[k].agent_name
                       /\ logs[k].level = shown[k].level
                       /\ logs[k].message = shown[k].message
                /\ \A k \in 1..(Len(logs) - 1) : logs[k].timestamp < logs[k + 1].timestamp

\* C23 witness: the log of project 1 has more than 100 entries, among entries
\* of project 2, and the accessor has answered for it with 100 entries.
C23_Witness ==
    /\ response.url = <<1, "/logs">>
    /\ Len(LogRows(1)) > 100
    /\ LogRows(2) # <<>>
    /\ Len(response.body.logs) = 100
    /\ response.body.logs[1].message # LogRows(1)[1].message


\* C24: a workflow that has set its project to running sets it to completed or
\* to failed later on: the project does not stay in running.
C24_RunningEnds ==
    \A t \in 1..MaxFairBuilds :
        [](  (t <= Len(tasks) /\ At(t, "wf_log_start"))
          => <>(t <= Len(tasks)
                /\ projects[tasks[t].project] \in {"completed", "failed"}))


\* The model gave the two runs the same reply at every call both of them made.
SameReplies(t1, t2) ==
    \A i \in 1..Min({Len(hist[t1].replies), Len(hist[t2].replies)}) :
        hist[t1].replies[i] = hist[t2].replies[i]

\* What a run leaves: how it ended, its calls and its failure, and its project's
\* status, shared memory, files and log entries, without the project id.
Leaves(t) ==
    LET q == tasks[t].project
        mem == RowsOf(shared_memory, q)
        files == RowsOf(project_files, q)
        logs == RowsOf(agent_logs, q)
    IN  [pc |-> tasks[t].pc, success |-> tasks[t].success,
         n_exec |-> hist[t].n_exec, failed_at |-> hist[t].failed_at,
         cause |-> hist[t].cause, replies |-> hist[t].replies,
         status |-> projects[q],
         mem |-> [i \in 1..Len(mem) |-> <<mem[i].key, mem[i].value>>],
         files |-> [i \in 1..Len(files) |->
                       <<files[i].file_path, files[i].content, files[i].size>>],
         logs |-> [i \in 1..Len(logs) |->
                      <<logs[i].agent_name, logs[i].level, logs[i].message>>]]

\* Task t is the only run of its project.
OnlyRun(t) == \A u \in Tasks : u # t => tasks[u].project # tasks[t].project

\* C25: the agent status is not used for control flow.  Two workflow runs on two
\* projects, each the first of its project and starting from an empty store,
\* that get the same replies from the model and meet no other departure, end
\* alike: the same results, the same store writes and the same log entries,
\* although the later run finds the agents with the call history and the
\* statuses (idle or error) the earlier run left.
C25_StatusNotControlFlow ==
    \A t1, t2 \in Tasks :
        (/\ t1 < t2
         /\ ~tasks[t1].direct /\ ~tasks[t2].direct
         /\ OnlyRun(t1) /\ OnlyRun(t2)
         /\ Ended(tasks[t1].pc) /\ Ended(tasks[t2].pc)
         /\ deviations = 0
         /\ SameReplies(t1, t2))
            => Leaves(t1) = Leaves(t2)

\* C25 witness: two such runs have ended; in each the first phase succeeded and
\* the model call of the second raised, so the run that came later found the
\* second agent with the status error and ended like the earlier one.
C25_Witness ==
    \E t1, t2 \in Tasks :
        /\ t1 < t2
        /\ ~tasks[t1].direct /\ ~tasks[t2].direct
        /\ OnlyRun(t1) /\ OnlyRun(t2)
        /\ Ended(tasks[t1].pc) /\ Ended(tasks[t2].pc)
        /\ deviations = 0
        /\ hist[t1].replies = <<ReplyFirst, <<"raises">>>>
        /\ hist[t2].replies = hist[t1].replies
        /\ agent_status[phases[2].role] = "error"
        /\ Leaves(t1) = Leaves(t2)


StartsWithSlash(file_path) == file_path # <<>> /\ file_path[1] = "/"

\* The paths given to create_file and, as keys of files, by the model's replies,
\* and the stored ones.
GivenPaths ==
    FilePaths \cup {<<>>, <<"a">>, <<"/", "a">>, <<"/", "b">>, <<"/">>}
    \cup {project_files[i].file_path : i \in 1..Len(project_files)}

\* C26: every stored file path starts with '/'.  A path that lacks the '/' gets
\* it in front, a path that has it is stored as it is, and normalizing a
\* normalized path changes nothing.
C26_StoredPathsNormalized ==
    /\ \A i \in 1..Len(project_files) : StartsWithSlash(project_files[i].file_path)
    /\ \A path \in GivenPaths :
           /\ StartsWithSlash(path) => NormalizePath(path) = path
           /\ ~StartsWithSlash(path) => NormalizePath(path) = <<"/">> \o path
           /\ NormalizePath(NormalizePath(path)) = NormalizePath(path)

\* C26 witness: Agent.execute has committed the files of a reply that names one
\* file as a and one as /a: both are stored under /a.
C26_Witness ==
    \E t \in Tasks :
        /\ \E n \in 1..Len(hist[t].replies) : hist[t].replies[n] = ReplySecond
        /\ \E i, j \in 1..Len(project_files) :
               /\ project_files[i].project_id = tasks[t].project
               /\ project_files[j].project_id = tasks[t].project
               /\ project_files[i].file_path = <<"/", "a">>
               /\ project_files[j].file_path = <<"/", "a">>
               /\ project_files[i].content = <<"c">>
               /\ project_files[j].content = <<"d", "d">>


\* The entries of task t's run since its latest phase-start entry.
PhaseEntries(t) ==
    LET run == RunLog(t)
        starts == {i \in 1..Len(run) : IsPhaseStart(run[i])}
    IN  IF starts = {} THEN <<>> ELSE SubSeq(run, Max(starts) + 1, Len(run))

\* C27: Agent.execute is all-or-nothing.  When a call made by the workflow has
\* returned a failure, the project's shared memory and files are as they were
\* when the phase began, and the call has appended no entry of level success.
C27_FailureCommitsNothing ==
    \A t \in Tasks :
        (running = t /\ ~tasks[t].direct /\ tasks[t].pc = "phase_check" /\ ~tasks[t].success)
            => /\ MemoryRows(tasks[t].project) = hist[t].mem_at_start
               /\ FileRows(tasks[t].project) = hist[t].files_at_start
               /\ \A i \in 1..Len(PhaseEntries(t)) : PhaseEntries(t)[i].level # "success"


\* C28: without a model Agent.execute returns a failure and leaves all else as it
\* is: the step of a call made on a server without the key changes no table and
\* no agent's status, and the call has returned success = false.
C28_NoModelLeavesAll ==
    [][\A t \in Tasks :
          (At(t, "agent_enter") /\ ~GEMINI_API_KEY) =>
              /\ UNCHANGED <<projects, project_files, agent_logs, shared_memory>>
              /\ agent_status' = agent_status
              /\ tasks'[t].pc = "phase_check"
              /\ ~tasks'[t].success]_vars

\* C28 witness: on a server without the key the first phase's call has returned
\* a failure; the run's log holds the start entry and the phase-start entry
\* only, there is no shared memory and no file, and every agent is idle.
C28_Witness ==
    \E t \in Tasks :
        /\ ~GEMINI_API_KEY
        /\ At(t, "phase_check")
        /\ ~tasks[t].direct
        /\ ~tasks[t].success
        /\ hist[t].n_exec = 1
        /\ Len(RunLog(t)) = 2
        /\ MemoryRows(tasks[t].project) = <<>>
        /\ FileRows(tasks[t].project) = <<>>
        /\ \A role \in AgentRole : agent_status[role] = "idle"


\* Task t, a workflow, is appending a phase-start entry or has a call of
\* Agent.execute in progress.
InPhase(t) ==
    /\ running = t
    /\ ~tasks[t].direct
    /\ tasks[t].pc \in {"phase_log", "agent_enter"} \/ InExecute(t)

\* C29: a phase of a workflow runs only while its project is running: whenever a
\* workflow is appending a phase-start entry or its call of Agent.execute is in
\* progress, the status of its project is running, also when a build was
\* requested more than once for the project.
C29_PhaseOnlyWhileRunning ==
    \A t \in Tasks : InPhase(t) => projects[tasks[t].project] = "running"

\* C29 witness: a second build of a project, requested while the first was
\* waiting, has a model call in progress after the first build has ended.
C29_Witness ==
    \E t1, t2 \in Tasks :
        /\ t1 # t2
        /\ ~tasks[t1].direct
        /\ tasks[t1].project = tasks[t2].project
        /\ Ended(tasks[t1].pc)
        /\ hist[t1].n_exec > 0
        /\ InPhase(t2)
        /\ tasks[t2].pc = "agent_call"
        /\ tasks[t2].phase = 2


\* The run of task t has committed the status completed: it is past its last
\* phase, which succeeded, and holds the loop with its project completed.
HasCompleted(t) ==
    /\ running = t
    /\ ~tasks[t].direct
    /\ tasks[t].phase = Len(phases)
    /\ tasks[t].success
    /\ tasks[t].pc \in {"wf_log_done", "wf_except", "wf_except_log", "wf_finally"}
    /\ projects[tasks[t].project] = "completed"

\* C30: a run that has committed the status completed does not set the status
\* to failed afterwards, also when appending the completion entry fails.
C30_CompletedStays ==
    [][\A t \in Tasks :
          HasCompleted(t) => projects'[tasks[t].project] = "completed"]_vars


\* The Orchestrator's workflow-started entry (line 581).
IsStarted(row) ==
    /\ row.agent_name = "Orchestrator"
    /\ row.message = <<"Starting autonomous development workflow">>

\* The Orchestrator's completion entry (line 618) or failure entry (line 626).
IsClosing(row) == row.agent_name = "Orchestrator" /\ ~IsStarted(row)

\* The phase whose role wrote the entry.
PhaseOfEntry(row) == CHOOSE k \in 1..Len(phases) : phases[k].role = row.agent_name

\* C31: in the log a single workflow run has produced for its project, the
\* workflow-started entry is the first entry, the completion or failure entry is
\* the last, the entries of a phase come after every entry of the phases
\* before it, and within a phase the phase-start entry comes first, before the
\* success or error entry of the phase's agent.  Stated entry by entry: an
\* agent's entry follows an entry of its own phase or of an earlier one; a
\* phase-start entry does not follow an entry of its own phase, and a success or
\* error entry does.
C31_RunLogOrder ==
    \A t \in Tasks :
        (~tasks[t].direct /\ OnlyRun(t)) =>
            LET log == RunLog(t)
                OfAgent(i) == i >= 1 /\ log[i].agent_name # "Orchestrator"
                SamePhase(i, j) == OfAgent(i) /\ log[i].agent_name = log[j].agent_name
            IN  \A j \in 1..Len(log) :
                    /\ IsStarted(log[j]) => j = 1
                    /\ IsClosing(log[j]) => j = Len(log)
                    /\ OfAgent(j) =>
                           /\ OfAgent(j - 1) =>
                                  PhaseOfEntry(log[j - 1]) <= PhaseOfEntry(log[j])
                           /\ IF IsPhaseStart(log[j])
                              THEN ~SamePhase(j - 1, j)
                              ELSE /\ log[j].level \in {"success", "error"}
                                   /\ SamePhase(j - 1, j)

\* C31 witness: a run has ended whose log begins with the workflow-started entry
\* and ends with the failure entry, after a first phase with a success entry and
\* a second phase whose agent appended a success entry and then an error entry.
C31_Witness ==
    \E t \in Tasks :
        /\ ~tasks[t].direct /\ OnlyRun(t)
        /\ Ended(tasks[t].pc)
        /\ LET log == RunLog(t)
           IN  /\ Len(log) = 7
               /\ IsStarted(log[1])
               /\ IsPhaseStart(log[2]) /\ log[3].level = "success"
               /\ IsPhaseStart(log[4]) /\ log[4].agent_name = phases[2].role
               /\ log[5].level = "success" /\ log[5].agent_name = phases[2].role
               /\ log[6].level = "error" /\ log[6].agent_name = phases[2].role
               /\ IsClosing(log[7])

=============================================================================
